---- MODULE Spec2Model ----
(***************************************************************************)
(* A model of SebastianDang/WebGL, src/js/main.js.  The file holds two     *)
(* variants of the same page script:                                       *)
(*   - the static variant  (lines 1-215):   main, initShader, loadShader,  *)
(*     initBuffers, drawScene;                                             *)
(*   - the animated variant (lines 217-553): main, initShaderProgram,      *)
(*     loadShader, initBuffers, animateScene (with its step callback),     *)
(*     drawScene.                                                          *)
(* The host (browser, WebGL implementation, frame scheduler) is the        *)
(* environment: whether a context is available, whether each shader stage  *)
(* compiles, whether the program links, how a null handle passed to a GL   *)
(* entry point is treated, and the timestamps handed to the callback.      *)
(*                                                                         *)
(* Every call the script makes to the host is recorded in a log, in the    *)
(* order the code makes it.  Times are integers: timestamps and `progress` *)
(* are milliseconds; `last`, `curr` and `delta` (seconds in the code,      *)
(* progress * 0.001) are kept in thousandths of a second, so that the      *)
(* arithmetic is exact.  A 4x4 matrix is the word of the elementary        *)
(* transforms multiplied into it, in order: gl-matrix's translate, scale,  *)
(* rotate and multiply all compute out = a * M, i.e. append on the right.  *)
(***************************************************************************)
EXTENDS Integers, Sequences, FiniteSets, TLC

VARIABLES
    variant,        \* which of the two scripts the page runs
    host,           \* what the host environment does (fixed per run)
    pc,             \* main: "start", "done" (returned), "thrown" (uncaught TypeError)
    glLog,          \* the host calls made by main, in order
    programInfo,    \* shaderProgramInfo as built by main (NoInfo until built)
    toWorld,        \* animated: the world transform held by main/animateScene
    start,          \* animated: `start` of animateScene's closure
    last,           \* animated: `last` of animateScene's closure (in 1/1000 s)
    rafPending,     \* callbacks registered with requestAnimationFrame and not yet run
    frames,         \* number of step invocations so far
    drawCount,      \* number of drawArrays calls issued by step invocations
    frameLog,       \* the host calls made by the latest step invocation
    progress,       \* local `progress` of the latest step invocation
    delta,          \* local `delta` of the latest step invocation (in 1/1000 s)
    timestamp,      \* the timestamp handed to the latest step invocation
    firstTimestamp  \* history: the timestamp handed to the first step invocation

vars == <<variant, host, pc, glLog, programInfo, toWorld, start, last, rafPending,
          frames, drawCount, frameLog, progress, delta, timestamp, firstTimestamp>>

\* ---------------------------------------------------------------- bounds

\* The number of frames the host delivers before the model stops looking.
MaxFrames == 5

\* The timestamps (ms) the host may hand to step, non-decreasing along a run.
\* They straddle both phase boundaries, measured from a start of 0 and of 16.
Timestamps == {0, 16, 3000, 6283, 6299, 6300, 12566, 12582, 12583, 15000}

\* ------------------------------------------------------------- constants

\* JavaScript null (var start = null; a failed initShader/loadShader result).
NULL == -1

\* singleRotation = 360000 * Math.PI / 180 = 2000*pi = 6283.185... ms.
\* For an integer number of milliseconds p:  p < singleRotation  iff  p <= 6283,
\* and  p < 2 * singleRotation (12566.370...)  iff  p <= 12566.
singleRotationFloor == 6283
doubleRotationFloor == 12566

\* ------------------------------------------------------------ host calls

\* A host call that returns normally.
Call(op, arg) == [op |-> op, arg |-> arg, obj |-> "", ok |-> TRUE, val |-> <<>>]

\* A host call handed a matrix.
CallM(op, arg, m) == [op |-> op, arg |-> arg, obj |-> "", ok |-> TRUE, val |-> m]

\* A GL call whose non-nullable object argument may be null.  A WebIDL-strict
\* host throws a TypeError (the call is made and main is unwound); a lenient
\* host records INVALID_VALUE and returns.
ObjCall(op, handle, arg, h) ==
    [op |-> op, arg |-> arg, obj |-> handle,
     ok |-> (handle # "null" \/ ~h.strict), val |-> <<>>]

\* The calls up to and including the first one that throws.
RECURSIVE UpToThrow(_)
UpToThrow(s) ==
    IF s = <<>> THEN <<>>
    ELSE IF ~Head(s).ok THEN <<Head(s)>>
    ELSE <<Head(s)>> \o UpToThrow(Tail(s))

Throws(s) == \E i \in 1..Len(s) : ~s[i].ok

\* Positions of the calls of log s whose op is o.
Pos(s, o) == {i \in 1..Len(s) : s[i].op = o}

Count(s, o) == Cardinality(Pos(s, o))

\* ---------------------------------------------------------------- matrices

\* mat4.create(): the identity, the empty product.
Identity == <<>>

\* mat4.translate(out, a, v): out = a * T(v).
Translate(a, v) == Append(a, [kind |-> "translate", axis |-> v, amount |-> 0])

\* mat4.scale(out, a, v): out = a * S(v).
Scale(a, v) == Append(a, [kind |-> "scale", axis |-> v, amount |-> 0])

\* mat4.rotate(out, a, rad, axis): out = a * R(rad, axis).
Rotate(a, rad, axis) == Append(a, [kind |-> "rotate", axis |-> axis, amount |-> rad])

\* mat4.multiply(out, a, b): out = a * b.
Multiply(a, b) == a \o b

\* mat4.perspective(out, 45 degrees, aspect, 0.1, 100.0) applied to a fresh matrix.
Perspective == <<[kind |-> "perspective", axis |-> <<0, 0, 0>>, amount |-> 45]>>

\* ---------------------------------------------------------- pipeline builder

\* loadShader: the calls it makes for one stage.
loadShader(type, compiles) ==
    <<Call("createShader", type), Call("shaderSource", type),
      Call("compileShader", type), Call("getShaderParameter", "COMPILE_STATUS")>>
    \o (IF compiles THEN <<>>
        ELSE <<Call("getShaderInfoLog", type), Call("alert", "compile"),
               Call("deleteShader", type)>>)

\* loadShader: what it returns.
loadShaderResult(type, compiles) == IF compiles THEN type ELSE "null"

\* gl.getProgramParameter(shaderProgram, gl.LINK_STATUS): a program links only
\* with both stages compiled and attached, and then if the linker accepts it.
LinkStatus(h) == h.vsOk /\ h.fsOk /\ h.linkOk

\* initShader (static variant): the calls it makes.
initShader(h) ==
    LET vertex   == loadShaderResult("VERTEX_SHADER", h.vsOk)
        fragment == loadShaderResult("FRAGMENT_SHADER", h.fsOk)
    IN  UpToThrow(
            loadShader("VERTEX_SHADER", h.vsOk)
            \o loadShader("FRAGMENT_SHADER", h.fsOk)
            \o <<Call("createProgram", ""),
                 ObjCall("attachShader", vertex, "program", h),
                 ObjCall("attachShader", fragment, "program", h),
                 Call("linkProgram", "program"),
                 Call("getProgramParameter", "LINK_STATUS")>>
            \o (IF LinkStatus(h) THEN <<>>
                ELSE <<Call("getProgramInfoLog", "program"), Call("alert", "link")>>))

\* initShader (static variant): what it returns.
initShaderResult(h) == IF LinkStatus(h) THEN "program" ELSE "null"

\* initShaderProgram (animated variant): the calls it makes.
initShaderProgram(h) ==
    LET vertex   == loadShaderResult("VERTEX_SHADER", h.vsOk)
        fragment == loadShaderResult("FRAGMENT_SHADER", h.fsOk)
    IN  UpToThrow(
            loadShader("VERTEX_SHADER", h.vsOk)
            \o loadShader("FRAGMENT_SHADER", h.fsOk)
            \o <<Call("createProgram", ""),
                 ObjCall("attachShader", vertex, "program", h),
                 ObjCall("attachShader", fragment, "program", h),
                 Call("linkProgram", "program"),
                 Call("getProgramParameter", "LINK_STATUS")>>
            \o (IF LinkStatus(h) THEN <<>>
                ELSE <<Call("getProgramInfoLog", "program"), Call("alert", "link")>>))

\* initShaderProgram (animated variant): what it returns.
initShaderProgramResult(h) == IF LinkStatus(h) THEN "program" ELSE "null"

\* gl.getAttribLocation(program, name): the slot, or -1 for an invalid program.
AttribLocation(program, name) == IF program = "null" THEN "-1" ELSE name

\* gl.getUniformLocation(program, name): the location, or null for an invalid program.
UniformLocation(program, name) == IF program = "null" THEN "null" ELSE name

\* shaderProgramInfo before main has built it.
NoInfo == [program |-> "none", vertexPosition |-> "none", vertexColor |-> "none",
           projectionMatrix |-> "none", modelViewMatrix |-> "none"]

\* shaderProgramInfo of the static variant (it has no vertexColor member).
StaticInfo(program) ==
    [program          |-> program,
     vertexPosition   |-> AttribLocation(program, "Vertex"),
     vertexColor      |-> "undefined",
     projectionMatrix |-> UniformLocation(program, "Projection"),
     modelViewMatrix  |-> UniformLocation(program, "ModelView")]

\* shaderProgramInfo of the animated variant.
AnimatedInfo(program) ==
    [program          |-> program,
     vertexPosition   |-> AttribLocation(program, "Vertex"),
     vertexColor      |-> AttribLocation(program, "Color"),
     projectionMatrix |-> UniformLocation(program, "Projection"),
     modelViewMatrix  |-> UniformLocation(program, "ModelView")]

\* ------------------------------------------------------------ geometry store

\* initBuffers (static variant): the position buffer.
initBuffersStatic ==
    <<Call("createBuffer", "positionBuffer"), Call("bindBuffer", "positionBuffer"),
      Call("bufferData", "positions")>>

\* initBuffers (animated variant): the position buffer, then the colour buffer.
initBuffersAnimated ==
    <<Call("createBuffer", "positionBuffer"), Call("bindBuffer", "positionBuffer"),
      Call("bufferData", "positions"),
      Call("createBuffer", "colorBuffer"), Call("bindBuffer", "colorBuffer"),
      Call("bufferData", "colors")>>

\* ---------------------------------------------------------------- drawScene

\* drawScene (static variant): the GL calls it makes, in order.  The view
\* matrix is a fresh identity translated by (0, 0, -6).
drawSceneStatic(info) ==
    LET projectionMatrix == Perspective
        modelViewMatrix  == Translate(Identity, <<0, 0, -6>>)
    IN  <<Call("clearColor", "0,0,0,1"),
          Call("clearDepth", "1"),
          Call("enable", "DEPTH_TEST"),
          Call("depthFunc", "LEQUAL"),
          Call("clear", "COLOR_BUFFER_BIT|DEPTH_BUFFER_BIT"),
          Call("bindBuffer", "positionBuffer"),
          Call("vertexAttribPointer", info.vertexPosition),
          Call("enableVertexAttribArray", info.vertexPosition),
          Call("useProgram", info.program),
          CallM("uniformMatrix4fv", info.projectionMatrix, projectionMatrix),
          CallM("uniformMatrix4fv", info.modelViewMatrix, modelViewMatrix),
          Call("drawArrays", "TRIANGLE_STRIP,0,4")>>

\* drawScene (animated variant) with the draw issued before the uniforms are
\* uploaded and before the clear.
drawSceneAnimated_DrawFirst(info, w) ==
    <<Call("clearColor", "0,0,0,1"),
      Call("clearDepth", "1"),
      Call("enable", "DEPTH_TEST"),
      Call("depthFunc", "LEQUAL"),
      Call("drawArrays", "TRIANGLE_STRIP,0,4"),
      Call("clear", "COLOR_BUFFER_BIT|DEPTH_BUFFER_BIT"),
      Call("bindBuffer", "positionBuffer"),
      Call("vertexAttribPointer", info.vertexPosition),
      Call("enableVertexAttribArray", info.vertexPosition),
      Call("bindBuffer", "colorBuffer"),
      Call("vertexAttribPointer", info.vertexColor),
      Call("enableVertexAttribArray", info.vertexColor),
      Call("useProgram", info.program),
      CallM("uniformMatrix4fv", info.projectionMatrix, Perspective),
      CallM("uniformMatrix4fv", info.modelViewMatrix, Multiply(w, Identity))>>

\* drawScene (animated variant): the GL calls it makes, in order.  The view
\* matrix is toWorld multiplied onto a fresh identity.
drawSceneAnimated(info, w) ==
    LET projectionMatrix == Perspective
        modelViewMatrix  == Multiply(w, Identity)
    IN  <<Call("clearColor", "0,0,0,1"),
          Call("clearDepth", "1"),
          Call("enable", "DEPTH_TEST"),
          Call("depthFunc", "LEQUAL"),
          Call("clear", "COLOR_BUFFER_BIT|DEPTH_BUFFER_BIT"),
          Call("bindBuffer", "positionBuffer"),
          Call("vertexAttribPointer", info.vertexPosition),
          Call("enableVertexAttribArray", info.vertexPosition),
          Call("bindBuffer", "colorBuffer"),
          Call("vertexAttribPointer", info.vertexColor),
          Call("enableVertexAttribArray", info.vertexColor),
          Call("useProgram", info.program),
          CallM("uniformMatrix4fv", info.projectionMatrix, projectionMatrix),
          CallM("uniformMatrix4fv", info.modelViewMatrix, modelViewMatrix),
          Call("drawArrays", "TRIANGLE_STRIP,0,4")>>

\* --------------------------------------------------------------------- main

\* main (static variant) drawing before the geometry is built.
SetupStatic_DrawBeforeBuffers(h) ==
    LET shaderProgram == initShaderResult(h)
    IN  initShader(h)
        \o <<ObjCall("getAttribLocation", shaderProgram, "Vertex", h),
             ObjCall("getUniformLocation", shaderProgram, "Projection", h),
             ObjCall("getUniformLocation", shaderProgram, "ModelView", h)>>
        \o drawSceneStatic(StaticInfo(shaderProgram))
        \o initBuffersStatic

\* main (static variant), after the context check: build the pipeline, look
\* the bindings up, build the geometry, draw.  Nothing tests initShader's result.
SetupStatic(h) ==
    LET shaderProgram == initShaderResult(h)
    IN  initShader(h)
        \o <<ObjCall("getAttribLocation", shaderProgram, "Vertex", h),
             ObjCall("getUniformLocation", shaderProgram, "Projection", h),
             ObjCall("getUniformLocation", shaderProgram, "ModelView", h)>>
        \o initBuffersStatic
        \o drawSceneStatic(StaticInfo(shaderProgram))

\* main (static variant) without the return after the context notification.
MainStaticLog_NoReturn(h) ==
    <<Call("querySelector", "#glCanvas"), Call("getContext", "webgl")>>
    \o (IF ~h.gl THEN <<Call("alert", "webgl")>> ELSE <<>>)
    \o UpToThrow(SetupStatic(h))

\* main (static variant): every host call it makes.
MainStaticLog(h) ==
    <<Call("querySelector", "#glCanvas"), Call("getContext", "webgl")>>
    \o (IF ~h.gl THEN <<Call("alert", "webgl")>> ELSE UpToThrow(SetupStatic(h)))

\* animateScene, outside step: it registers the first callback.
animateScene == <<Call("requestAnimationFrame", "step")>>

\* main (animated variant), after the context check.
SetupAnimated(h) ==
    LET shaderProgram == initShaderProgramResult(h)
    IN  initShaderProgram(h)
        \o <<ObjCall("getAttribLocation", shaderProgram, "Vertex", h),
             ObjCall("getAttribLocation", shaderProgram, "Color", h),
             ObjCall("getUniformLocation", shaderProgram, "Projection", h),
             ObjCall("getUniformLocation", shaderProgram, "ModelView", h)>>
        \o initBuffersAnimated
        \o animateScene

\* main (animated variant): every host call it makes.
MainAnimatedLog(h) ==
    <<Call("querySelector", "#glCanvas"), Call("getContext", "webgl")>>
    \o (IF ~h.gl THEN <<Call("alert", "webgl")>> ELSE UpToThrow(SetupAnimated(h)))

\* main (animated variant): the toWorld it hands to animateScene.
InitialToWorld ==
    Translate(Rotate(Scale(Identity, <<1, 1, 1>>), 0, <<0, 0, 1>>), <<0, 0, -6>>)

\* -------------------------------------------------------------- animateScene

\* JavaScript's !x for x a number or null.
Falsy(x) == x = NULL \/ x = 0

\* if (!start) start = timestamp;
StepStart(s, ts) == IF Falsy(s) THEN ts ELSE s

\* delta taken from the time since start instead of since the last frame.
StepDelta_SinceStart(curr, l) == curr

\* var delta = curr - last;   (curr = progress * 0.001)
StepDelta(curr, l) == curr - l

\* progress < singleRotation
InFirstPhase(p) == p <= singleRotationFloor

\* progress < (2 * singleRotation)
BeforeFreeze(p) == p <= doubleRotationFloor

\* step applying the second phase's rotations in the order X, Y, Z.
Animate_XYZ(w, p, d) ==
    IF InFirstPhase(p) THEN Rotate(w, d, <<0, 0, 1>>)
    ELSE IF BeforeFreeze(p)
         THEN Rotate(Rotate(Rotate(w, d, <<1, 0, 0>>), d, <<0, 1, 0>>), d, <<0, 0, 1>>)
         ELSE w

\* step resetting toWorld to its initial value once the animation is over.
Animate_ResetWhenFrozen(w, p, d) ==
    IF InFirstPhase(p) THEN Rotate(w, d, <<0, 0, 1>>)
    ELSE IF BeforeFreeze(p)
         THEN Rotate(Rotate(Rotate(w, d, <<0, 0, 1>>), d, <<0, 1, 0>>), d, <<1, 0, 0>>)
         ELSE InitialToWorld

\* The if / else if / else of step: the rotations applied to toWorld.
Animate(w, p, d) ==
    IF InFirstPhase(p) THEN Rotate(w, d, <<0, 0, 1>>)
    ELSE IF BeforeFreeze(p)
         THEN Rotate(Rotate(Rotate(w, d, <<0, 0, 1>>), d, <<0, 1, 0>>), d, <<1, 0, 0>>)
         ELSE w

\* step ending the callback chain once the animation is over.
StepCalls_StopWhenFrozen(info, w, p) ==
    drawSceneAnimated(info, w)
    \o (IF BeforeFreeze(p) THEN <<Call("requestAnimationFrame", "step")>> ELSE <<>>)

\* The tail of step: draw the scene, then register the next callback, whatever
\* the value of progress.
StepCalls(info, w, p) ==
    drawSceneAnimated(info, w) \o <<Call("requestAnimationFrame", "step")>>

\* ------------------------------------------------------------------ actions

Hosts == [gl : BOOLEAN, vsOk : BOOLEAN, fsOk : BOOLEAN, linkOk : BOOLEAN,
          strict : BOOLEAN]

Init ==
    /\ variant \in {"static", "animated"}
    /\ host \in Hosts
    /\ pc = "start"
    /\ glLog = <<>>
    /\ programInfo = NoInfo
    /\ toWorld = Identity
    /\ start = NULL
    /\ last = 0
    /\ rafPending = 0
    /\ frames = 0
    /\ drawCount = 0
    /\ frameLog = <<>>
    /\ progress = 0
    /\ delta = 0
    /\ timestamp = 0
    /\ firstTimestamp = NULL

\* The page of the static variant runs main.
MainStatic ==
    /\ variant = "static"
    /\ pc = "start"
    /\ glLog' = MainStaticLog(host)
    /\ pc' = IF Throws(glLog') THEN "thrown" ELSE "done"
    /\ programInfo' = IF Count(glLog', "getUniformLocation") = 2 /\ ~Throws(glLog')
                      THEN StaticInfo(initShaderResult(host)) ELSE NoInfo
    /\ rafPending' = Count(glLog', "requestAnimationFrame")
    /\ UNCHANGED <<variant, host, toWorld, start, last, frames, drawCount, frameLog,
                   progress, delta, timestamp, firstTimestamp>>

\* The page of the animated variant runs main.
MainAnimated ==
    /\ variant = "animated"
    /\ pc = "start"
    /\ glLog' = MainAnimatedLog(host)
    /\ pc' = IF Throws(glLog') THEN "thrown" ELSE "done"
    /\ programInfo' = IF Count(glLog', "getUniformLocation") = 2 /\ ~Throws(glLog')
                      THEN AnimatedInfo(initShaderProgramResult(host)) ELSE NoInfo
    /\ toWorld' = IF Count(glLog', "requestAnimationFrame") > 0
                  THEN InitialToWorld ELSE Identity
    /\ start' = NULL
    /\ last' = 0
    /\ rafPending' = Count(glLog', "requestAnimationFrame")
    /\ UNCHANGED <<variant, host, frames, drawCount, frameLog, progress, delta,
                   timestamp, firstTimestamp>>

\* The frame scheduler runs one pending callback: step(ts).
Step(ts) ==
    /\ rafPending > 0
    /\ frames < MaxFrames
    /\ ts >= timestamp
    /\ start' = StepStart(start, ts)
    /\ progress' = ts - start'
    /\ delta' = StepDelta(progress', last)
    /\ last' = progress'
    /\ toWorld' = Animate(toWorld, progress', delta')
    /\ frameLog' = StepCalls(programInfo, toWorld', progress')
    /\ drawCount' = drawCount + Count(frameLog', "drawArrays")
    /\ rafPending' = rafPending - 1 + Count(frameLog', "requestAnimationFrame")
    /\ frames' = frames + 1
    /\ timestamp' = ts
    /\ firstTimestamp' = IF frames = 0 THEN ts ELSE firstTimestamp
    /\ UNCHANGED <<variant, host, pc, glLog, programInfo>>

Next ==
    \/ MainStatic
    \/ MainAnimated
    \/ \E ts \in Timestamps : Step(ts)

Spec == Init /\ [][Next]_vars

\* ------------------------------------------------------ helpers for the claims

\* Every call of op a in log s comes before every call of op b.
Before(s, a, b) == \A i \in Pos(s, a), j \in Pos(s, b) : i < j

\* Position of the first shader-failure notification in log s (0: none).
FirstFailureAlert(s) ==
    LET F == {i \in Pos(s, "alert") : s[i].arg \in {"compile", "link"}}
    IN  IF F = {} THEN 0 ELSE CHOOSE i \in F : \A j \in F : i <= j

\* The ops main has no business calling once setup has failed.
SetupOps == {"getAttribLocation", "getUniformLocation", "createBuffer", "bindBuffer",
             "bufferData", "useProgram", "uniformMatrix4fv", "drawArrays",
             "requestAnimationFrame"}

\* Total angle (in 1/1000 rad) of the rotations about axis ax in matrix word w.
RECURSIVE SumAbout(_, _)
SumAbout(w, ax) ==
    IF w = <<>> THEN 0
    ELSE (IF Head(w).kind = "rotate" /\ Head(w).axis = ax THEN Head(w).amount ELSE 0)
         + SumAbout(Tail(w), ax)

\* The calls of the latest drawScene: in the static variant the tail of main's
\* log from clearColor on, in the animated variant the latest frame's calls
\* without the trailing registration.
DrawSegment ==
    IF variant = "static"
    THEN IF Pos(glLog, "clearColor") = {} THEN <<>>
         ELSE SubSeq(glLog, CHOOSE i \in Pos(glLog, "clearColor") : TRUE, Len(glLog))
    ELSE SelectSeq(frameLog, LAMBDA c : c.op # "requestAnimationFrame")

\* ------------------------------------------------------------------- claims

\* C1: when shader compilation or program linking fails, main halts setup:
\* after the failure notification there is no attribute/uniform lookup, no
\* buffer creation, no drawArrays and no frame callback registration, in
\* either variant.
C1_HaltsOnShaderFailure ==
    LET k == FirstFailureAlert(glLog)
    IN  k > 0 =>
           /\ \A i \in (k + 1)..Len(glLog) : glLog[i].op \notin SetupOps
           /\ rafPending = 0
           /\ drawCount = 0

\* C2: if compiling either stage fails, pipeline construction is aborted
\* before linking: attachShader and linkProgram are never called in a run in
\* which loadShader reported a compile failure.
C2_NoLinkAfterCompileFailure ==
    (\E i \in Pos(glLog, "alert") : glLog[i].arg = "compile")
        => Count(glLog, "attachShader") = 0 /\ Count(glLog, "linkProgram") = 0

\* C3: when getContext returns a falsy value, main issues exactly one
\* notification and returns: no shader is compiled, no program or buffer is
\* created, no draw call is issued and no frame callback is registered.
C3_NoContextHalts ==
    (pc # "start" /\ ~host.gl) =>
        /\ pc = "done"
        /\ Count(glLog, "alert") = 1
        /\ glLog[Len(glLog)].op = "alert"
        /\ \A i \in 1..Len(glLog) :
              glLog[i].op \in {"querySelector", "getContext", "alert"}
        /\ rafPending = 0
        /\ frames = 0
        /\ drawCount = 0

C3_Witness == pc = "done" /\ ~host.gl /\ variant = "animated" /\ Len(glLog) = 3

\* C4: the rotations one frame applies are decided by that frame's elapsed
\* time t = timestamp - start alone: one rotation about Z when t < T1; three
\* rotations about Z, then Y, then X when T1 <= t < 2*T1; each by the frame's
\* delta, each multiplied onto toWorld from the right.
C4_RotationsByPhase ==
    [][frames' = frames + 1 =>
         LET t == timestamp' - start'
             R(ax) == [kind |-> "rotate", axis |-> ax, amount |-> delta']
         IN  /\ t <= singleRotationFloor
                  => toWorld' = toWorld \o <<R(<<0, 0, 1>>)>>
             /\ (t > singleRotationFloor /\ t <= doubleRotationFloor)
                  => toWorld' = toWorld \o <<R(<<0, 0, 1>>), R(<<0, 1, 0>>), R(<<1, 0, 0>>)>>
      ]_vars

C4_Witness ==
    /\ frames >= 2
    /\ progress > singleRotationFloor /\ progress <= doubleRotationFloor
    /\ delta > 0
    /\ Len(toWorld) >= 7
    /\ toWorld[Len(toWorld)].axis = <<1, 0, 0>>
    /\ toWorld[Len(toWorld) - 2].axis = <<0, 0, 1>>

\* C5: a frame with t >= 2*T1 leaves toWorld unchanged, and so does every
\* later frame: toWorld keeps the value it had after the last frame with
\* t < 2*T1 and is never reset.
C5_FrozenStaysFrozen ==
    [][frames' = frames + 1 =>
         /\ progress' > doubleRotationFloor => toWorld' = toWorld
         /\ (frames > 0 /\ progress > doubleRotationFloor)
              => (progress' > doubleRotationFloor /\ toWorld' = toWorld)
      ]_vars

C5_Witness ==
    /\ frames >= 3
    /\ progress > doubleRotationFloor
    /\ progress - delta > doubleRotationFloor
    /\ Len(toWorld) > Len(InitialToWorld)

\* C6: every invocation of step, in all three phases, issues exactly one draw
\* call and then registers exactly one next callback; at most one callback is
\* pending at any time, the chain never stops by itself, and the number of
\* draw calls equals the number of callbacks that have run.
C6_OneDrawOneCallbackPerFrame ==
    /\ rafPending <= 1
    /\ drawCount = frames
    /\ Count(glLog, "requestAnimationFrame") > 0 => rafPending = 1
    /\ frames > 0 =>
         /\ Count(frameLog, "drawArrays") = 1
         /\ Count(frameLog, "requestAnimationFrame") = 1
         /\ Before(frameLog, "drawArrays", "requestAnimationFrame")
         /\ rafPending = 1

C6_Witness ==
    /\ frames >= 3
    /\ progress > doubleRotationFloor
    /\ rafPending = 1
    /\ drawCount = frames

\* C7: the static variant, on a successful setup, issues exactly one draw call
\* (triangle strip, 4 vertices, view matrix = translation (0,0,-6)) after
\* building the pipeline and then the geometry, registers no frame callback
\* and terminates: no second draw call ever occurs.
C7_StaticDrawsOnce ==
    variant = "static" =>
        /\ frames = 0 /\ drawCount = 0 /\ rafPending = 0
        /\ Count(glLog, "requestAnimationFrame") = 0
        /\ (pc # "start" /\ host.gl /\ LinkStatus(host)) =>
             /\ pc = "done"
             /\ Count(glLog, "drawArrays") = 1
             /\ glLog[Len(glLog)].op = "drawArrays"
             /\ glLog[Len(glLog)].arg = "TRIANGLE_STRIP,0,4"
             /\ Before(glLog, "linkProgram", "bufferData")
             /\ Before(glLog, "bufferData", "drawArrays")
             /\ Count(glLog, "linkProgram") = 1 /\ Count(glLog, "bufferData") = 1
             /\ \E i \in Pos(glLog, "uniformMatrix4fv") :
                    /\ glLog[i].arg = "ModelView"
                    /\ glLog[i].val =
                         <<[kind |-> "translate", axis |-> <<0, 0, -6>>, amount |-> 0]>>

C7_Witness ==
    /\ variant = "static" /\ pc = "done" /\ host.gl /\ LinkStatus(host)
    /\ Count(glLog, "drawArrays") = 1

\* C8: as long as every frame so far had t < T1, the deltas applied as Z
\* rotation sum to the elapsed time of the latest frame (in seconds), every
\* delta is non-negative, and the total rotation about Y and about X is 0.
C8_ZRotationTelescopes ==
    (frames > 0 /\ progress <= singleRotationFloor) =>
        /\ SumAbout(toWorld, <<0, 0, 1>>) = timestamp - start
        /\ SumAbout(toWorld, <<0, 1, 0>>) = 0
        /\ SumAbout(toWorld, <<1, 0, 0>>) = 0
        /\ delta >= 0
        /\ \A i \in 1..Len(toWorld) : toWorld[i].amount >= 0

C8_Witness ==
    /\ frames >= 3
    /\ progress <= singleRotationFloor
    /\ delta > 0 /\ delta < progress
    /\ SumAbout(toWorld, <<0, 0, 1>>) = 6283

\* C9: start is assigned by the first invocation of step and never
\* reassigned, so at every invocation t equals that invocation's timestamp
\* minus the first invocation's timestamp, also when the first timestamp is 0.
C9_ElapsedFromFirstCallback ==
    frames > 0 => (start = firstTimestamp /\ progress = timestamp - firstTimestamp)

\* C10: within every drawScene the GL operations happen in a fixed order:
\* clear colour opaque black and clear depth 1.0, depth test enabled with
\* LEQUAL, the buffers cleared, then the position buffer (animated: and the
\* colour buffer) bound to its slot and enabled, then useProgram, then both
\* uniform matrices, and last exactly one drawArrays of a 4-vertex triangle
\* strip.
C10_DrawSceneOrder ==
    LET s == DrawSegment
        n == Len(s)
    IN  n > 0 =>
          /\ \E i \in Pos(s, "clearColor") : s[i].arg = "0,0,0,1"
          /\ \E i \in Pos(s, "clearDepth") : s[i].arg = "1"
          /\ \E i \in Pos(s, "enable") : s[i].arg = "DEPTH_TEST"
          /\ \E i \in Pos(s, "depthFunc") : s[i].arg = "LEQUAL"
          /\ Count(s, "clear") = 1
          /\ \A o \in {"clearColor", "clearDepth", "enable", "depthFunc"} :
                Before(s, o, "clear")
          /\ \A o \in {"bindBuffer", "vertexAttribPointer", "enableVertexAttribArray"} :
                Before(s, "clear", o) /\ Before(s, o, "useProgram")
          /\ \E b \in Pos(s, "bindBuffer"), p \in Pos(s, "vertexAttribPointer"),
                e \in Pos(s, "enableVertexAttribArray") :
                /\ s[b].arg = "positionBuffer" /\ p = b + 1 /\ e = p + 1
                /\ s[p].arg = s[e].arg
                /\ LinkStatus(host) => s[p].arg = "Vertex"
          /\ variant = "animated" =>
               \E b \in Pos(s, "bindBuffer"), p \in Pos(s, "vertexAttribPointer"),
                  e \in Pos(s, "enableVertexAttribArray") :
                  /\ s[b].arg = "colorBuffer" /\ p = b + 1 /\ e = p + 1
                  /\ s[p].arg = s[e].arg
                  /\ LinkStatus(host) => s[p].arg = "Color"
          /\ Count(s, "useProgram") = 1
          /\ Count(s, "uniformMatrix4fv") = 2
          /\ Before(s, "useProgram", "uniformMatrix4fv")
          /\ Before(s, "uniformMatrix4fv", "drawArrays")
          /\ LinkStatus(host) =>
               {s[i].arg : i \in Pos(s, "uniformMatrix4fv")} = {"Projection", "ModelView"}
          /\ Count(s, "drawArrays") = 1
          /\ s[n].op = "drawArrays" /\ s[n].arg = "TRIANGLE_STRIP,0,4"

C10_Witness ==
    /\ variant = "animated" /\ frames >= 1 /\ LinkStatus(host)
    /\ Len(DrawSegment) = 15

====
